---- MODULE Spec2Model ----
(***************************************************************************)
(* Cooldown gate, cooldown file and scheduler driver of the options-email  *)
(* service (scheduler.py) together with the two callers of the gate in     *)
(* main.py: the timer-driven task and the manual /send-email handler.      *)
(*                                                                         *)
(* Instants are whole seconds since an arbitrary epoch.  The data source   *)
(* and the dispatch function are environment: each call draws its outcome  *)
(* from the outcomes the callee can produce.                               *)
(*                                                                         *)
(* Each handler advances one call at a time (query, gate, dispatch,        *)
(* record), and the timer task and one manual request interleave freely on *)
(* the shared file: the file is shared by every process pointed at the     *)
(* same DATA_DIR, so this covers the single event loop, where a handler    *)
(* runs to its end before the next starts, as well as several processes.   *)
(***************************************************************************)
EXTENDS Integers, FiniteSets, Sequences, TLC

VARIABLES
    now,                    \* wall clock, datetime.now(timezone.utc)
    cooldown_file,          \* content of pepsi_options_email_cooldown.json
    APSCHEDULER_AVAILABLE,  \* module flag set at import
    _scheduler,             \* module global: the AsyncIOScheduler or None
    _send_email_callback,   \* module global: the registered callback or None
    timers,                 \* started AsyncIOScheduler instances not yet shut down
    pc,                     \* position of the timer task and of the manual request
    gate,                   \* per handler: outcome of its last check_cooldown()
    cb_calls,               \* callback invocations made by the current timer cycle
    response,               \* last response of the /send-email handler
    email_result,           \* per handler: what send_options_email() returned
    save_error,             \* the last _save_email_timestamp() printed an IOError
    last_call,              \* last call of start_scheduler()/stop_scheduler(): value, printed line
    last_dispatch,          \* instant of the last successful dispatch
    pickup_date_close,      \* argument of the is_prebook_load() call under study
    prebook,                \* what that call returned or raised
    overwritten,            \* history: the instant stored in the file the last write replaced
    start_arg,              \* history: the callback passed to the last start_scheduler() call
    armed_by                \* history: the callback passed to the start_scheduler() call
                            \* that last took the scheduler from stopped to running

vars == <<now, cooldown_file, APSCHEDULER_AVAILABLE, _scheduler,
          _send_email_callback, timers, pc, gate, cb_calls, response,
          email_result, save_error, last_call, last_dispatch,
          pickup_date_close, prebook, overwritten, start_arg, armed_by>>

classify_vars == <<pickup_date_close, prebook>>

history_vars == <<overwritten, start_arg, armed_by>>

-----------------------------------------------------------------------------
(* Bounds and program constants *)

MaxWindows == 1

\* is_prebook_load() is studied on the civil days 0 .. MaxDay
MaxDay == 2

COOLDOWN_MINUTES == 60

\* timedelta(minutes=COOLDOWN_MINUTES), in seconds
cooldown_duration == COOLDOWN_MINUTES * 60

\* The instants the clock is observed at: the start, the last second and the
\* end of each cooldown window.
Instants ==
    UNION {{k * cooldown_duration, k * cooldown_duration + cooldown_duration - 1}
           : k \in 0 .. (MaxWindows - 1)}
    \cup {MaxWindows * cooldown_duration}

NoInstant == 0 - 1

\* interval_minutes values passed to start_scheduler
Intervals == {30, 60}

\* callables passed to start_scheduler
Callbacks == {"_send_email_task", "other_callback"}

None == "None"

Procs == {"timer", "manual"}

-----------------------------------------------------------------------------
(* datetime, its ISO-8601 text, and the JSON document in the file *)

\* A str: ISO-8601 text (its fields), any other text, or the empty string.
EmptyStr == [form |-> "empty", date |-> 0, hour |-> 0, minute |-> 0,
             second |-> 0, offset |-> ""]
GarbageStr == [form |-> "text", date |-> 0, hour |-> 0, minute |-> 0,
               second |-> 0, offset |-> ""]

\* A datetime: seconds since the epoch and its tzinfo ("utc" or "naive").
datetime(secs, tz) == [secs |-> secs, tzinfo |-> tz]

NoDatetime == [secs |-> NoInstant, tzinfo |-> "none"]

\* datetime.isoformat(): "<date>T<HH>:<MM>:<SS>" followed by the UTC offset
\* of an aware datetime.
isoformat(dt) ==
    [form   |-> "iso",
     date   |-> dt.secs \div 86400,
     hour   |-> (dt.secs % 86400) \div 3600,
     minute |-> (dt.secs % 3600) \div 60,
     second |-> dt.secs % 60,
     offset |-> IF dt.tzinfo = "utc" THEN "+00:00" ELSE ""]

\* datetime.fromisoformat(s) for a str s: ValueError unless s is ISO-8601.
fromisoformat(s) ==
    IF s.form = "iso"
    THEN [exc |-> "",
          dt  |-> datetime(s.date * 86400 + s.hour * 3600 + s.minute * 60 + s.second,
                           IF s.offset = "+00:00" THEN "utc" ELSE "naive")]
    ELSE [exc |-> "ValueError", dt |-> NoDatetime]

\* A JSON value under a key of the document.
JAbsent    == [type |-> "absent", num |-> 0, str |-> EmptyStr]
JNull      == [type |-> "null",   num |-> 0, str |-> EmptyStr]
JNumber(n) == [type |-> "number", num |-> n, str |-> EmptyStr]
JString(s) == [type |-> "string", num |-> 0, str |-> s]

\* Python truth value of data.get(key)
Truthy(v) ==
    CASE v.type = "string" -> v.str.form # "empty"
      [] v.type = "number" -> v.num # 0
      [] OTHER             -> FALSE

\* The file: missing, not JSON, a JSON document that is no object, or an object.
FileMissing   == [kind |-> "missing",   last_email_sent |-> JAbsent, updated_at |-> JAbsent]
FileNotJson   == [kind |-> "notjson",   last_email_sent |-> JAbsent, updated_at |-> JAbsent]
FileNonObject == [kind |-> "nonobject", last_email_sent |-> JAbsent, updated_at |-> JAbsent]
FileObject(last, upd) == [kind |-> "object", last_email_sent |-> last, updated_at |-> upd]

\* What a deployment can find in the file at boot: nothing, a record left by
\* an earlier run (aware, as record_email_sent writes it, or naive), or
\* content that some other writer or a partial write left there.
InitialFiles ==
    {FileMissing, FileNotJson, FileNonObject,
     FileObject(JAbsent, JAbsent),
     FileObject(JNull, JNull),
     FileObject(JNumber(0), JAbsent),
     FileObject(JNumber(5), JAbsent),
     FileObject(JString(EmptyStr), JAbsent),
     FileObject(JString(GarbageStr), JAbsent),
     FileObject(JString(isoformat(datetime(0, "utc"))),
                JString(isoformat(datetime(0, "utc")))),
     FileObject(JString(isoformat(datetime(0, "naive"))), JAbsent)}

-----------------------------------------------------------------------------
(* scheduler.py: the cooldown file and the gate *)

\* _get_last_email_timestamp(): [exc, dt]; dt = NoDatetime stands for None and
\* exc names an exception that leaves the function.
_get_last_email_timestamp(file) ==
    CASE file.kind = "missing"   -> [exc |-> "", dt |-> NoDatetime]
      [] file.kind = "notjson"   -> [exc |-> "", dt |-> NoDatetime]
      [] file.kind = "nonobject" -> [exc |-> "AttributeError", dt |-> NoDatetime]
      [] OTHER ->
           LET timestamp_str == file.last_email_sent IN
           IF ~Truthy(timestamp_str)
           THEN [exc |-> "", dt |-> NoDatetime]
           ELSE IF timestamp_str.type # "string"
           THEN [exc |-> "TypeError", dt |-> NoDatetime]
           ELSE LET r == fromisoformat(timestamp_str.str) IN
                IF r.exc = "ValueError"
                THEN [exc |-> "", dt |-> NoDatetime]
                ELSE r

\* The gate with the comparison of lines 114-117 in force.
check_cooldown_enforced(file, t) ==
    LET r == _get_last_email_timestamp(file) IN
    IF r.exc # "" THEN [exc |-> r.exc, can_send |-> FALSE, reason |-> ""]
    ELSE IF r.dt = NoDatetime THEN [exc |-> "", can_send |-> TRUE, reason |-> ""]
    ELSE IF t - r.dt.secs < cooldown_duration
         THEN [exc |-> "", can_send |-> FALSE, reason |-> "Cooldown period active."]
         ELSE [exc |-> "", can_send |-> TRUE, reason |-> ""]

\* The gate refusing when no record exists.
check_cooldown_refuse_none(file, t) ==
    LET r == _get_last_email_timestamp(file) IN
    IF r.exc # "" THEN [exc |-> r.exc, can_send |-> FALSE, reason |-> ""]
    ELSE IF r.dt = NoDatetime
         THEN [exc |-> "", can_send |-> FALSE, reason |-> "No record."]
         ELSE [exc |-> "", can_send |-> TRUE, reason |-> ""]

\* check_cooldown(): [exc, can_send, reason]
check_cooldown(file, t) ==
    LET r == _get_last_email_timestamp(file) IN
    IF r.exc # "" THEN [exc |-> r.exc, can_send |-> FALSE, reason |-> ""]
    ELSE IF r.dt = NoDatetime THEN [exc |-> "", can_send |-> TRUE, reason |-> ""]
    ELSE LET last_email      == IF r.dt.tzinfo = "naive"
                                THEN datetime(r.dt.secs, "utc") ELSE r.dt
             time_since_last == t - last_email.secs
         IN  \* the comparison of time_since_last with cooldown_duration is
             \* commented out in the source
             [exc |-> "", can_send |-> TRUE, reason |-> ""]

NoGate == [exc |-> "", can_send |-> FALSE, reason |-> "unchecked"]

\* Outcomes of writing the file: written, open()/mkdir() raised IOError, or
\* the write raised IOError after open() truncated the file.
IoOutcomes == {"ok", "open_fails", "write_fails"}

\* _save_email_timestamp() writing the ISO text without the seconds.
_save_email_timestamp_minutes(file, timestamp, io) ==
    LET text == [isoformat(timestamp) EXCEPT !.second = 0] IN
    CASE io = "ok"          -> FileObject(JString(text), JString(text))
      [] io = "open_fails"  -> file
      [] io = "write_fails" -> FileNotJson

\* _save_email_timestamp(timestamp): the new content of the file
_save_email_timestamp(file, timestamp, io) ==
    CASE io = "ok" ->
           FileObject(JString(isoformat(timestamp)),
                      JString(isoformat(datetime(timestamp.secs, "utc"))))
      [] io = "open_fails"  -> file
      [] io = "write_fails" -> FileNotJson

\* record_email_sent() writing the minutes and seconds of the clock reading
\* and dropping its hours.
record_email_sent_drops_hours(file, t, io) ==
    _save_email_timestamp(file, datetime(t % 3600, "utc"), io)

\* record_email_sent(): the new content of the file
record_email_sent(file, t, io) == _save_email_timestamp(file, datetime(t, "utc"), io)

-----------------------------------------------------------------------------
(* db.py: is_prebook_load *)

\* Values passed as pickup_date_close: None, a str, a datetime, or a value of
\* another type (the annotation is not enforced).
PyNone         == [type |-> "NoneType", str |-> EmptyStr, dt |-> NoDatetime]
PyStr(s)       == [type |-> "str",      str |-> s,        dt |-> NoDatetime]
PyDatetime(dt) == [type |-> "datetime", str |-> EmptyStr, dt |-> dt]
PyInt          == [type |-> "int",      str |-> EmptyStr, dt |-> NoDatetime]

\* An ISO-8601 string of a UTC instant with the suffix "Z".
ZuluStr(secs) == [isoformat(datetime(secs, "utc")) EXCEPT !.offset = "Z"]

\* str.replace('Z', '+00:00') (line 52)
replace_Z(s) == IF s.offset = "Z" THEN [s EXCEPT !.offset = "+00:00"] ELSE s

\* The instants of the clock and of the pickups: the first and the last
\* second of every hour of the days 0 .. MaxDay.
ClassifyInstants ==
    {h * 3600 + d : h \in 0 .. ((MaxDay + 1) * 24 - 1), d \in {0, 3599}}

Pickups ==
    {PyNone, PyInt, PyStr(EmptyStr), PyStr(GarbageStr)}
    \cup UNION {{PyStr(isoformat(datetime(t, "utc"))),
                 PyStr(ZuluStr(t)),
                 PyStr(isoformat(datetime(t, "naive"))),
                 PyDatetime(datetime(t, "utc")),
                 PyDatetime(datetime(t, "naive"))} : t \in ClassifyInstants}

\* ZoneInfo("America/Chicago"): CST (UTC-6) until daylight saving time
\* starts, at 02:00 CST = 08:00 UTC, here on day 1; CDT (UTC-5) from then on.
DstStart == 86400 + 8 * 3600

utcoffset(secs) == IF secs < DstStart THEN 0 - 6 * 3600 ELSE 0 - 5 * 3600

\* dt.astimezone(central_tz) of an aware UTC datetime, and
\* datetime.now(central_tz): the wall clock reading in Central time.
astimezone(dt) ==
    [secs |-> dt.secs + utcoffset(dt.secs), tzinfo |-> "America/Chicago"]

\* .date() as a day number, and .hour
date_of(dt) == dt.secs \div 86400
hour_of(dt) == (dt.secs % 86400) \div 3600

\* Lines 72-87 with "pickup_date == today" taken for a pre-book.
prebook_rule_today_eligible(pickup_central, now_central) ==
    LET pickup_date == date_of(pickup_central)
        today       == date_of(now_central)
        tomorrow    == today + 1
    IN  IF pickup_date < today THEN FALSE
        ELSE IF pickup_date = tomorrow /\ hour_of(now_central) >= 12
                                       /\ hour_of(pickup_central) < 9 THEN FALSE
        ELSE TRUE

\* Lines 72-87 with "now_central.hour > 12".
prebook_rule_after_noon_hour(pickup_central, now_central) ==
    LET pickup_date == date_of(pickup_central)
        today       == date_of(now_central)
        tomorrow    == today + 1
    IN  IF pickup_date < today THEN FALSE
        ELSE IF pickup_date = today THEN FALSE
        ELSE IF pickup_date = tomorrow /\ hour_of(now_central) > 12
                                       /\ hour_of(pickup_central) < 9 THEN FALSE
        ELSE TRUE

\* Lines 72-87 with the 9:00 rule applied to every later day.
prebook_rule_every_day(pickup_central, now_central) ==
    LET pickup_date == date_of(pickup_central)
        today       == date_of(now_central)
    IN  IF pickup_date < today THEN FALSE
        ELSE IF pickup_date = today THEN FALSE
        ELSE IF hour_of(now_central) >= 12 /\ hour_of(pickup_central) < 9 THEN FALSE
        ELSE TRUE

\* Lines 67-87: the decision on the Central dates and hours.
prebook_rule(pickup_central, now_central) ==
    LET pickup_date == date_of(pickup_central)
        today       == date_of(now_central)
        tomorrow    == today + 1
    IN  IF pickup_date < today THEN FALSE
        ELSE IF pickup_date = today THEN FALSE
        ELSE IF pickup_date = tomorrow /\ hour_of(now_central) >= 12
                                       /\ hour_of(pickup_central) < 9 THEN FALSE
        ELSE TRUE

\* The body of the try (lines 46-87): the value returned, or the exception
\* raised by fromisoformat() or by .tzinfo of a value that is no datetime.
is_prebook_load_try(pickup, t) ==
    IF pickup.type = "NoneType" THEN [exc |-> "", value |-> FALSE]
    ELSE LET parsed == IF pickup.type = "str"
                       THEN fromisoformat(replace_Z(pickup.str))
                       ELSE [exc |-> "", dt |-> pickup.dt]
         IN  IF parsed.exc # "" THEN [exc |-> parsed.exc, value |-> FALSE]
             ELSE IF pickup.type \notin {"str", "datetime"}
             THEN [exc |-> "AttributeError", value |-> FALSE]
             ELSE LET pickup_dt == IF parsed.dt.tzinfo = "naive"
                                   THEN datetime(parsed.dt.secs, "utc")
                                   ELSE parsed.dt
                      pickup_central == astimezone(pickup_dt)
                      now_central    == astimezone(datetime(t, "utc"))
                  IN  [exc |-> "", value |-> prebook_rule(pickup_central, now_central)]

\* is_prebook_load() without the except clause of lines 89-92.
is_prebook_load_no_except(pickup, t) == is_prebook_load_try(pickup, t)

\* is_prebook_load(pickup_date_close) called at instant t: "except Exception"
\* turns every exception of the body into the value False.
is_prebook_load(pickup, t) ==
    LET r == is_prebook_load_try(pickup, t) IN
    IF r.exc # "" THEN [exc |-> "", value |-> FALSE] ELSE r

NoVerdict == [called |-> FALSE, exc |-> "", value |-> FALSE]

-----------------------------------------------------------------------------
(* scheduler.py: the scheduler driver *)

NoScheduler == [exists |-> FALSE, running |-> FALSE, interval_minutes |-> 0, jobs |-> {}]

is_scheduler_running == _scheduler.exists /\ _scheduler.running

NoCall == [op |-> "none", ret |-> "None", message |-> ""]

Init ==
    /\ now = 0
    /\ cooldown_file \in InitialFiles
    /\ APSCHEDULER_AVAILABLE \in BOOLEAN
    /\ _scheduler = NoScheduler
    /\ _send_email_callback = None
    /\ timers = 0
    /\ pc = [p \in Procs |-> "idle"]
    /\ gate = [p \in Procs |-> NoGate]
    /\ cb_calls = 0
    /\ response = "none"
    /\ email_result = [p \in Procs |-> "none"]
    /\ save_error = FALSE
    /\ last_call = NoCall
    /\ last_dispatch = NoInstant
    /\ pickup_date_close = PyNone
    /\ prebook = NoVerdict
    /\ overwritten = NoInstant
    /\ start_arg = None
    /\ armed_by = None

\* The module globals of scheduler.py and the scheduler instances they own.
driver_vars == <<APSCHEDULER_AVAILABLE, _scheduler, _send_email_callback, timers>>

\* The wall clock moves on.
Advance ==
    /\ \E t \in Instants : t > now /\ now' = t
    /\ UNCHANGED <<cooldown_file, driver_vars, pc, gate, cb_calls, response,
                   email_result, save_error, last_call, last_dispatch,
                   classify_vars, history_vars>>

-----------------------------------------------------------------------------
(* scheduler.py: start_scheduler, stop_scheduler *)

\* AsyncIOScheduler() with the job added and started (lines 181-192)
started_scheduler(interval_minutes) ==
    [exists |-> TRUE, running |-> TRUE, interval_minutes |-> interval_minutes,
     jobs |-> {"send_options_email"}]

\* start_scheduler() without the "already running" test of line 176.
start_scheduler_no_running_test(send_email_callback, interval_minutes) ==
    /\ IF ~APSCHEDULER_AVAILABLE
       THEN /\ last_call' = [op |-> "start_scheduler", ret |-> "False",
                             message |-> "Warning: APScheduler not available"]
            /\ UNCHANGED <<_scheduler, _send_email_callback, timers>>
       ELSE /\ _send_email_callback' = send_email_callback
            /\ _scheduler' = started_scheduler(interval_minutes)
            /\ timers' = timers + 1
            /\ last_call' = [op |-> "start_scheduler", ret |-> "True",
                             message |-> "Scheduler started"]
    /\ UNCHANGED <<now, cooldown_file, APSCHEDULER_AVAILABLE, pc, gate,
                   cb_calls, response, email_result, save_error, last_dispatch>>

\* start_scheduler() without the availability test of line 172.
start_scheduler_no_available_test(send_email_callback, interval_minutes) ==
    /\ IF is_scheduler_running
       THEN /\ last_call' = [op |-> "start_scheduler", ret |-> "True",
                             message |-> "Scheduler is already running"]
            /\ UNCHANGED <<_scheduler, _send_email_callback, timers>>
       ELSE /\ _send_email_callback' = send_email_callback
            /\ _scheduler' = started_scheduler(interval_minutes)
            /\ timers' = timers + 1
            /\ last_call' = [op |-> "start_scheduler", ret |-> "True",
                             message |-> "Scheduler started"]
    /\ UNCHANGED <<now, cooldown_file, APSCHEDULER_AVAILABLE, pc, gate,
                   cb_calls, response, email_result, save_error, last_dispatch>>

\* start_scheduler() registering the callback before its "already running"
\* test.
start_scheduler_replaces_callback(send_email_callback, interval_minutes) ==
    /\ IF ~APSCHEDULER_AVAILABLE
       THEN /\ last_call' = [op |-> "start_scheduler", ret |-> "False",
                             message |-> "Warning: APScheduler not available"]
            /\ UNCHANGED <<_scheduler, _send_email_callback, timers>>
       ELSE IF is_scheduler_running
       THEN /\ _send_email_callback' = send_email_callback
            /\ last_call' = [op |-> "start_scheduler", ret |-> "True",
                             message |-> "Scheduler is already running"]
            /\ UNCHANGED <<_scheduler, timers>>
       ELSE /\ _send_email_callback' = send_email_callback
            /\ _scheduler' = started_scheduler(interval_minutes)
            /\ timers' = timers + 1
            /\ last_call' = [op |-> "start_scheduler", ret |-> "True",
                             message |-> "Scheduler started"]
    /\ UNCHANGED <<now, cooldown_file, APSCHEDULER_AVAILABLE, pc, gate,
                   cb_calls, response, email_result, save_error, last_dispatch>>

\* start_scheduler(send_email_callback, interval_minutes)
start_scheduler(send_email_callback, interval_minutes) ==
    /\ IF ~APSCHEDULER_AVAILABLE
       THEN /\ last_call' = [op |-> "start_scheduler", ret |-> "False",
                             message |-> "Warning: APScheduler not available"]
            /\ UNCHANGED <<_scheduler, _send_email_callback, timers>>
       ELSE IF is_scheduler_running
       THEN /\ last_call' = [op |-> "start_scheduler", ret |-> "True",
                             message |-> "Scheduler is already running"]
            /\ UNCHANGED <<_scheduler, _send_email_callback, timers>>
       ELSE /\ _send_email_callback' = send_email_callback
            /\ _scheduler' = started_scheduler(interval_minutes)
            /\ timers' = timers + 1
            /\ last_call' = [op |-> "start_scheduler", ret |-> "True",
                             message |-> "Scheduler started"]
    /\ UNCHANGED <<now, cooldown_file, APSCHEDULER_AVAILABLE, pc, gate,
                   cb_calls, response, email_result, save_error, last_dispatch>>

\* stop_scheduler() shutting the scheduler down but keeping the handle.
stop_scheduler_keeps_handle ==
    /\ pc["timer"] = "idle"
    /\ IF is_scheduler_running
       THEN /\ timers' = timers - 1
            /\ UNCHANGED _scheduler
            /\ last_call' = [op |-> "stop_scheduler", ret |-> "None",
                             message |-> "Scheduler stopped"]
       ELSE /\ UNCHANGED <<_scheduler, timers>>
            /\ last_call' = [op |-> "stop_scheduler", ret |-> "None", message |-> ""]
    /\ UNCHANGED <<now, cooldown_file, APSCHEDULER_AVAILABLE,
                   _send_email_callback, pc, gate, cb_calls, response,
                   email_result, save_error, last_dispatch>>

\* stop_scheduler() with shutdown(wait=False): it returns while a job runs.
stop_scheduler_no_wait ==
    /\ IF is_scheduler_running
       THEN /\ timers' = timers - 1
            /\ _scheduler' = NoScheduler
            /\ last_call' = [op |-> "stop_scheduler", ret |-> "None",
                             message |-> "Scheduler stopped"]
       ELSE /\ UNCHANGED <<_scheduler, timers>>
            /\ last_call' = [op |-> "stop_scheduler", ret |-> "None", message |-> ""]
    /\ UNCHANGED <<now, cooldown_file, APSCHEDULER_AVAILABLE,
                   _send_email_callback, pc, gate, cb_calls, response,
                   email_result, save_error, last_dispatch>>

\* stop_scheduler() that also sets _send_email_callback to None.
stop_scheduler_clears_callback ==
    /\ pc["timer"] = "idle"
    /\ IF is_scheduler_running
       THEN /\ timers' = timers - 1
            /\ _scheduler' = NoScheduler
            /\ _send_email_callback' = None
            /\ last_call' = [op |-> "stop_scheduler", ret |-> "None",
                             message |-> "Scheduler stopped"]
       ELSE /\ UNCHANGED <<_scheduler, timers, _send_email_callback>>
            /\ last_call' = [op |-> "stop_scheduler", ret |-> "None", message |-> ""]
    /\ UNCHANGED <<now, cooldown_file, APSCHEDULER_AVAILABLE, pc, gate,
                   cb_calls, response, email_result, save_error, last_dispatch>>

\* stop_scheduler(): shutdown(wait=True) returns once no job is executing.
stop_scheduler ==
    /\ pc["timer"] = "idle"
    /\ IF is_scheduler_running
       THEN /\ timers' = timers - 1
            /\ _scheduler' = NoScheduler
            /\ last_call' = [op |-> "stop_scheduler", ret |-> "None",
                             message |-> "Scheduler stopped"]
       ELSE /\ UNCHANGED <<_scheduler, timers>>
            /\ last_call' = [op |-> "stop_scheduler", ret |-> "None", message |-> ""]
    /\ UNCHANGED <<now, cooldown_file, APSCHEDULER_AVAILABLE,
                   _send_email_callback, pc, gate, cb_calls, response,
                   email_result, save_error, last_dispatch>>

-----------------------------------------------------------------------------
(* scheduler.py: _scheduled_email_task, the job the timer runs *)

\* A timer of a started scheduler fires and the job begins (lines 137-142).
timer_fire ==
    /\ timers > 0
    /\ pc["timer"] = "idle"
    /\ IF _send_email_callback = None
       THEN UNCHANGED <<pc, gate, cb_calls>>
       ELSE /\ pc' = [pc EXCEPT !["timer"] = "sched_gate"]
            /\ gate' = [gate EXCEPT !["timer"] = NoGate]
            /\ cb_calls' = 0
    /\ UNCHANGED <<now, cooldown_file, driver_vars, response, email_result,
                   save_error, last_call, last_dispatch>>

\* Lines 145-151 invoking the callback without looking at the gate.
_scheduled_email_task_ignores_gate ==
    /\ pc["timer"] = "sched_gate"
    /\ gate' = [gate EXCEPT !["timer"] = check_cooldown(cooldown_file, now)]
    /\ cb_calls' = cb_calls + 1
    /\ pc' = [pc EXCEPT !["timer"] =
                IF _send_email_callback = "_send_email_task" THEN "query" ELSE "other"]
    /\ UNCHANGED <<now, cooldown_file, driver_vars, response, email_result,
                   save_error, last_call, last_dispatch>>

\* Lines 145-156: the gate, then the callback; an exception ends the cycle.
_scheduled_email_task ==
    /\ pc["timer"] = "sched_gate"
    /\ LET r == check_cooldown(cooldown_file, now) IN
       /\ gate' = [gate EXCEPT !["timer"] = r]
       /\ IF r.exc # "" \/ ~r.can_send
          THEN /\ pc' = [pc EXCEPT !["timer"] = "idle"]
               /\ UNCHANGED cb_calls
          ELSE /\ cb_calls' = cb_calls + 1
               /\ pc' = [pc EXCEPT !["timer"] =
                           IF _send_email_callback = "_send_email_task"
                           THEN "query" ELSE "other"]
    /\ UNCHANGED <<now, cooldown_file, driver_vars, response, email_result,
                   save_error, last_call, last_dispatch>>

\* A callback other than _send_email_task returns or raises (lines 151, 153).
other_callback ==
    /\ pc["timer"] = "other"
    /\ pc' = [pc EXCEPT !["timer"] = "idle"]
    /\ UNCHANGED <<now, cooldown_file, driver_vars, gate, cb_calls, response,
                   email_result, save_error, last_call, last_dispatch>>

-----------------------------------------------------------------------------
(* main.py: _send_email_task, the callback registered with the scheduler *)

\* _send_email_task() without its try/except: a raising query leaves the
\* task, and the scheduler with it, dead.
task_query_uncaught(raises) ==
    /\ pc["timer"] = "query"
    /\ pc' = [pc EXCEPT !["timer"] = IF raises THEN "idle" ELSE "gate"]
    /\ IF raises
       THEN /\ _scheduler' = NoScheduler
            /\ timers' = 0
       ELSE UNCHANGED <<_scheduler, timers>>
    /\ UNCHANGED <<now, cooldown_file, APSCHEDULER_AVAILABLE,
                   _send_email_callback, gate, cb_calls, response,
                   email_result, save_error, last_call, last_dispatch>>

\* get_options_with_available_loads() returns or raises (lines 25, 41).
task_query(raises) ==
    /\ pc["timer"] = "query"
    /\ pc' = [pc EXCEPT !["timer"] = IF raises THEN "idle" ELSE "gate"]
    /\ UNCHANGED <<now, cooldown_file, driver_vars, gate, cb_calls, response,
                   email_result, save_error, last_call, last_dispatch>>

\* check_cooldown() of lines 28-31
task_gate ==
    /\ pc["timer"] = "gate"
    /\ LET r == check_cooldown(cooldown_file, now) IN
       /\ gate' = [gate EXCEPT !["timer"] = r]
       /\ pc' = [pc EXCEPT !["timer"] =
                   IF r.exc # "" \/ ~r.can_send THEN "idle" ELSE "dispatch"]
    /\ UNCHANGED <<now, cooldown_file, driver_vars, cb_calls, response,
                   email_result, save_error, last_call, last_dispatch>>

\* Lines 34-40 calling record_email_sent() whatever send_options_email() returned.
task_dispatch_records_always(success) ==
    /\ pc["timer"] = "dispatch"
    /\ pc' = [pc EXCEPT !["timer"] = "record"]
    /\ email_result' = [email_result EXCEPT !["timer"] =
                           IF success THEN "success" ELSE "failure"]
    /\ last_dispatch' = IF success THEN now ELSE last_dispatch
    /\ UNCHANGED <<now, cooldown_file, driver_vars, gate, cb_calls, response,
                   save_error, last_call>>

\* send_options_email() and the test of its result (lines 34-40)
task_dispatch(success) ==
    /\ pc["timer"] = "dispatch"
    /\ pc' = [pc EXCEPT !["timer"] = IF success THEN "record" ELSE "idle"]
    /\ email_result' = [email_result EXCEPT !["timer"] =
                           IF success THEN "success" ELSE "none"]
    /\ last_dispatch' = IF success THEN now ELSE last_dispatch
    /\ UNCHANGED <<now, cooldown_file, driver_vars, gate, cb_calls, response,
                   save_error, last_call>>

\* record_email_sent() of line 37
task_record(io) ==
    /\ pc["timer"] = "record"
    /\ cooldown_file' = record_email_sent(cooldown_file, now, io)
    /\ save_error' = (io # "ok")
    /\ pc' = [pc EXCEPT !["timer"] = "idle"]
    /\ email_result' = [email_result EXCEPT !["timer"] = "none"]
    /\ UNCHANGED <<now, driver_vars, gate, cb_calls, response, last_call,
                   last_dispatch>>

-----------------------------------------------------------------------------
(* main.py: send_email, the manual trigger (POST /send-email, /webhook, /) *)

\* A request arrives (lines 95-98).
send_email_begin ==
    /\ pc["manual"] = "idle"
    /\ pc' = [pc EXCEPT !["manual"] = "query"]
    /\ gate' = [gate EXCEPT !["manual"] = NoGate]
    /\ response' = "none"
    /\ UNCHANGED <<now, cooldown_file, driver_vars, cb_calls, email_result,
                   save_error, last_call, last_dispatch>>

\* get_options_with_available_loads() returns or raises (lines 101, 142-155).
send_email_query(raises) ==
    /\ pc["manual"] = "query"
    /\ pc' = [pc EXCEPT !["manual"] = IF raises THEN "idle" ELSE "gate"]
    /\ response' = IF raises THEN "exception" ELSE response
    /\ UNCHANGED <<now, cooldown_file, driver_vars, gate, cb_calls,
                   email_result, save_error, last_call, last_dispatch>>

\* send_email's gate behind a lock the timer task holds from its own gate
\* to the end of its record write.
send_email_gate_locked ==
    /\ pc["manual"] = "gate"
    /\ pc["timer"] \notin {"gate", "dispatch", "record"}
    /\ LET r == check_cooldown(cooldown_file, now) IN
       /\ gate' = [gate EXCEPT !["manual"] = r]
       /\ pc' = [pc EXCEPT !["manual"] =
                   IF r.exc # "" \/ ~r.can_send THEN "idle" ELSE "dispatch"]
       /\ response' = IF r.exc # "" THEN "exception"
                      ELSE IF ~r.can_send THEN "skipped" ELSE response
    /\ UNCHANGED <<now, cooldown_file, driver_vars, cb_calls, email_result,
                   save_error, last_call, last_dispatch>>

\* send_email's gate with a rule of its own: the cooldown enforced.
send_email_gate_own_rule ==
    /\ pc["manual"] = "gate"
    /\ LET r == check_cooldown_enforced(cooldown_file, now) IN
       /\ gate' = [gate EXCEPT !["manual"] = r]
       /\ pc' = [pc EXCEPT !["manual"] =
                   IF r.exc # "" \/ ~r.can_send THEN "idle" ELSE "dispatch"]
       /\ response' = IF r.exc # "" THEN "exception"
                      ELSE IF ~r.can_send THEN "skipped" ELSE response
    /\ UNCHANGED <<now, cooldown_file, driver_vars, cb_calls, email_result,
                   save_error, last_call, last_dispatch>>

\* check_cooldown() and the "skipped" response (lines 104-115, 149-155)
send_email_gate ==
    /\ pc["manual"] = "gate"
    /\ LET r == check_cooldown(cooldown_file, now) IN
       /\ gate' = [gate EXCEPT !["manual"] = r]
       /\ pc' = [pc EXCEPT !["manual"] =
                   IF r.exc # "" \/ ~r.can_send THEN "idle" ELSE "dispatch"]
       /\ response' = IF r.exc # "" THEN "exception"
                      ELSE IF ~r.can_send THEN "skipped" ELSE response
    /\ UNCHANGED <<now, cooldown_file, driver_vars, cb_calls, email_result,
                   save_error, last_call, last_dispatch>>

\* send_email calling send_options_email() again after a result without
\* success, instead of answering "error".
send_email_dispatch_retries(success) ==
    /\ pc["manual"] = "dispatch"
    /\ pc' = [pc EXCEPT !["manual"] = IF success THEN "record" ELSE "dispatch"]
    /\ email_result' = [email_result EXCEPT !["manual"] =
                           IF success THEN "success" ELSE "none"]
    /\ last_dispatch' = IF success THEN now ELSE last_dispatch
    /\ UNCHANGED <<now, cooldown_file, driver_vars, gate, cb_calls, response,
                   save_error, last_call>>

\* send_options_email() and the test of its result (lines 118-140)
send_email_dispatch(success) ==
    /\ pc["manual"] = "dispatch"
    /\ pc' = [pc EXCEPT !["manual"] = IF success THEN "record" ELSE "idle"]
    /\ email_result' = [email_result EXCEPT !["manual"] =
                           IF success THEN "success" ELSE "none"]
    /\ response' = IF success THEN response ELSE "error"
    /\ last_dispatch' = IF success THEN now ELSE last_dispatch
    /\ UNCHANGED <<now, cooldown_file, driver_vars, gate, cb_calls,
                   save_error, last_call>>

\* send_email with an IOError of the write reaching its "except Exception".
send_email_record_raises_io(io) ==
    /\ pc["manual"] = "record"
    /\ cooldown_file' = record_email_sent(cooldown_file, now, io)
    /\ save_error' = (io # "ok")
    /\ pc' = [pc EXCEPT !["manual"] = "idle"]
    /\ email_result' = [email_result EXCEPT !["manual"] = "none"]
    /\ response' = IF io = "ok" THEN "success" ELSE "exception"
    /\ UNCHANGED <<now, driver_vars, gate, cb_calls, last_call, last_dispatch>>

\* record_email_sent() and the "success" response (lines 121-130)
send_email_record(io) ==
    /\ pc["manual"] = "record"
    /\ cooldown_file' = record_email_sent(cooldown_file, now, io)
    /\ save_error' = (io # "ok")
    /\ pc' = [pc EXCEPT !["manual"] = "idle"]
    /\ email_result' = [email_result EXCEPT !["manual"] = "none"]
    /\ response' = "success"
    /\ UNCHANGED <<now, driver_vars, gate, cb_calls, last_call, last_dispatch>>

-----------------------------------------------------------------------------
(* main.py: lifespan, run when the process (re)starts *)

\* lifespan() starting the scheduler whatever ENABLE_EMAIL_SCHEDULER says.
lifespan_starts_always(available, enable_scheduler, interval_minutes) ==
    /\ APSCHEDULER_AVAILABLE' = available
    /\ IF available
       THEN /\ _send_email_callback' = "_send_email_task"
            /\ _scheduler' = started_scheduler(interval_minutes)
            /\ timers' = 1
            /\ last_call' = [op |-> "start_scheduler", ret |-> "True",
                             message |-> "Scheduler started"]
       ELSE /\ _send_email_callback' = None
            /\ _scheduler' = NoScheduler
            /\ timers' = 0
            /\ last_call' = [op |-> "start_scheduler", ret |-> "False",
                             message |-> "Warning: APScheduler not available"]
    /\ pc' = [p \in Procs |-> "idle"]
    /\ gate' = [p \in Procs |-> NoGate]
    /\ email_result' = [p \in Procs |-> "none"]
    /\ cb_calls' = 0
    /\ response' = "none"
    /\ save_error' = FALSE
    /\ UNCHANGED <<now, cooldown_file, last_dispatch>>

\* The process restarts: the module globals are those of a fresh import, the
\* handlers in flight are gone, the file stays, and lifespan() starts the
\* scheduler when ENABLE_EMAIL_SCHEDULER is "true".
lifespan(available, enable_scheduler, interval_minutes) ==
    /\ APSCHEDULER_AVAILABLE' = available
    /\ IF enable_scheduler /\ available
       THEN /\ _send_email_callback' = "_send_email_task"
            /\ _scheduler' = started_scheduler(interval_minutes)
            /\ timers' = 1
            /\ last_call' = [op |-> "start_scheduler", ret |-> "True",
                             message |-> "Scheduler started"]
       ELSE /\ _send_email_callback' = None
            /\ _scheduler' = NoScheduler
            /\ timers' = 0
            /\ last_call' = IF enable_scheduler
                            THEN [op |-> "start_scheduler", ret |-> "False",
                                  message |-> "Warning: APScheduler not available"]
                            ELSE NoCall
    /\ pc' = [p \in Procs |-> "idle"]
    /\ gate' = [p \in Procs |-> NoGate]
    /\ email_result' = [p \in Procs |-> "none"]
    /\ cb_calls' = 0
    /\ response' = "none"
    /\ save_error' = FALSE
    /\ UNCHANGED <<now, cooldown_file, last_dispatch>>

-----------------------------------------------------------------------------
(* The system *)

\* The instant a write with outcome io replaces: the one the file held when
\* open(cooldown_file, "w") truncated it (scheduler.py line 80).
replaced_instant(file, io) ==
    IF io = "ok"
    THEN LET r == _get_last_email_timestamp(file) IN
         IF r.exc = "" THEN r.dt.secs ELSE NoInstant
    ELSE overwritten

StartScheduler ==
    /\ \E cb \in Callbacks, iv \in Intervals :
          /\ start_scheduler(cb, iv)
          /\ start_arg' = cb
          /\ armed_by' = IF ~is_scheduler_running /\ is_scheduler_running'
                         THEN cb ELSE armed_by
    /\ UNCHANGED <<classify_vars, overwritten>>

StopScheduler == stop_scheduler /\ UNCHANGED <<classify_vars, history_vars>>

TimerFire == timer_fire /\ UNCHANGED <<classify_vars, history_vars>>

ScheduledGate == _scheduled_email_task /\ UNCHANGED <<classify_vars, history_vars>>

OtherCallback == other_callback /\ UNCHANGED <<classify_vars, history_vars>>

TaskQuery ==
    /\ \E raises \in BOOLEAN : task_query(raises)
    /\ UNCHANGED <<classify_vars, history_vars>>

TaskGate == task_gate /\ UNCHANGED <<classify_vars, history_vars>>

TaskDispatch ==
    /\ \E success \in BOOLEAN : task_dispatch(success)
    /\ UNCHANGED <<classify_vars, history_vars>>

TaskRecord ==
    /\ \E io \in IoOutcomes :
          task_record(io) /\ overwritten' = replaced_instant(cooldown_file, io)
    /\ UNCHANGED <<classify_vars, start_arg, armed_by>>

SendEmailBegin == send_email_begin /\ UNCHANGED <<classify_vars, history_vars>>

SendEmailQuery ==
    /\ \E raises \in BOOLEAN : send_email_query(raises)
    /\ UNCHANGED <<classify_vars, history_vars>>

SendEmailGate == send_email_gate /\ UNCHANGED <<classify_vars, history_vars>>

SendEmailDispatch ==
    /\ \E success \in BOOLEAN : send_email_dispatch(success)
    /\ UNCHANGED <<classify_vars, history_vars>>

SendEmailRecord ==
    /\ \E io \in IoOutcomes :
          send_email_record(io) /\ overwritten' = replaced_instant(cooldown_file, io)
    /\ UNCHANGED <<classify_vars, start_arg, armed_by>>

Restart ==
    /\ \E available \in BOOLEAN, enable_scheduler \in BOOLEAN, iv \in Intervals :
          /\ lifespan(available, enable_scheduler, iv)
          /\ start_arg' = IF enable_scheduler THEN "_send_email_task" ELSE None
          /\ armed_by' = IF is_scheduler_running' THEN "_send_email_task" ELSE None
    /\ UNCHANGED <<classify_vars, overwritten>>

Next ==
    \/ Advance
    \/ StartScheduler
    \/ StopScheduler
    \/ TimerFire
    \/ ScheduledGate
    \/ OtherCallback
    \/ TaskQuery
    \/ TaskGate
    \/ TaskDispatch
    \/ TaskRecord
    \/ SendEmailBegin
    \/ SendEmailQuery
    \/ SendEmailGate
    \/ SendEmailDispatch
    \/ SendEmailRecord
    \/ Restart

Spec == Init /\ [][Next]_vars

-----------------------------------------------------------------------------
(* is_prebook_load on its own: one call on each pickup at each instant *)

ClassifyInit ==
    /\ now \in ClassifyInstants
    /\ pickup_date_close \in Pickups
    /\ prebook = NoVerdict
    /\ cooldown_file = FileMissing
    /\ APSCHEDULER_AVAILABLE = FALSE
    /\ _scheduler = NoScheduler
    /\ _send_email_callback = None
    /\ timers = 0
    /\ pc = [p \in Procs |-> "idle"]
    /\ gate = [p \in Procs |-> NoGate]
    /\ cb_calls = 0
    /\ response = "none"
    /\ email_result = [p \in Procs |-> "none"]
    /\ save_error = FALSE
    /\ last_call = NoCall
    /\ last_dispatch = NoInstant
    /\ overwritten = NoInstant
    /\ start_arg = None
    /\ armed_by = None

Classify ==
    /\ ~prebook.called
    /\ LET r == is_prebook_load(pickup_date_close, now) IN
       prebook' = [called |-> TRUE, exc |-> r.exc, value |-> r.value]
    /\ UNCHANGED <<now, cooldown_file, driver_vars, pc, gate, cb_calls, response,
                   email_result, save_error, last_call, last_dispatch,
                   pickup_date_close, history_vars>>

ClassifyNext == Classify

ClassifySpec == ClassifyInit /\ [][ClassifyNext]_vars

-----------------------------------------------------------------------------
(* Properties *)

Allowed == [exc |-> "", can_send |-> TRUE, reason |-> ""]

\* The file holds a record that reads back as an instant.
HasRecord(file) ==
    LET r == _get_last_email_timestamp(file) IN r.exc = "" /\ r.dt # NoDatetime

StoredInstant(file) == _get_last_email_timestamp(file).dt.secs

\* The content is none of: a record whose last_email_sent is ISO-8601 text,
\* a missing file.
Corrupt(file) ==
    \/ file.kind \in {"notjson", "nonobject"}
    \/ /\ file.kind = "object"
       /\ \/ file.last_email_sent.type # "string"
          \/ file.last_email_sent.str.form # "iso"

\* The outcome g of a gate evaluated at instant t on a stored instant t0,
\* with the cooldown enforced.
EnforcedOutcome(t0, t, g) ==
    IF t < t0 + cooldown_duration
    THEN g.exc = "" /\ ~g.can_send /\ g.reason # ""
    ELSE g = Allowed

\* The file holds a record as record_email_sent() writes it: aware, UTC.
WrittenRecord(file) ==
    HasRecord(file) /\ _get_last_email_timestamp(file).dt.tzinfo = "utc"

TimerGateStep == ScheduledGate \/ TaskGate

RecordStep == TaskRecord \/ SendEmailRecord

CallbackPcs == {"query", "gate", "dispatch", "record", "other"}

\* C1: over all timer cycles and manual requests, a dispatch succeeds only
\* if no dispatch succeeded before or the last successful one lies at least
\* the cooldown duration back.
C1_DispatchesOneCooldownApart ==
    [][(task_dispatch(TRUE) \/ send_email_dispatch(TRUE))
         => (last_dispatch = NoInstant \/ now - last_dispatch >= cooldown_duration)]_vars

\* C2: a gate evaluated on a stored record of instant t0 reports disallowed
\* with a non-empty reason before t0 + cooldown, and allowed with an empty
\* reason from t0 + cooldown on.
C2_GateAfterRecord ==
    [][/\ (TimerGateStep /\ WrittenRecord(cooldown_file))
            => EnforcedOutcome(StoredInstant(cooldown_file), now, gate'["timer"])
       /\ (SendEmailGate /\ WrittenRecord(cooldown_file))
            => EnforcedOutcome(StoredInstant(cooldown_file), now, gate'["manual"])]_vars

\* C3: the file changes only in the record step of a handler whose dispatch
\* returned success, and a handler stands at its record step only after a
\* dispatch that returned success; a failing or raising query or dispatch
\* ends the handler with the file as it was.
C3_RecordOnlyAfterSuccess ==
    [][/\ cooldown_file' # cooldown_file
            => \E p \in Procs : /\ pc[p] = "record"
                                /\ email_result[p] = "success"
                                /\ pc'[p] = "idle"
       /\ \A p \in Procs : pc'[p] = "record" => email_result'[p] = "success"
       /\ (\/ task_query(TRUE) \/ send_email_query(TRUE)
           \/ task_dispatch(FALSE) \/ send_email_dispatch(FALSE))
            => UNCHANGED cooldown_file]_vars

C3_Witness ==
    /\ response = "error"
    /\ pc["manual"] = "idle"
    /\ HasRecord(cooldown_file)
    /\ last_dispatch = cooldown_duration - 1
    /\ StoredInstant(cooldown_file) = last_dispatch

\* C4: a gate evaluated while the file is missing returns (True, ""), at
\* whatever instant.
C4_NoRecordAllows ==
    [][/\ (TimerGateStep /\ cooldown_file = FileMissing) => gate'["timer"] = Allowed
       /\ (SendEmailGate /\ cooldown_file = FileMissing) => gate'["manual"] = Allowed]_vars

C4_Witness ==
    /\ cooldown_file = FileMissing
    /\ now > 0
    /\ pc["manual"] = "dispatch"
    /\ gate["manual"] = Allowed

C6_CorruptFileAllows ==
    [][/\ (TimerGateStep /\ Corrupt(cooldown_file)) => gate'["timer"] = Allowed
       /\ (SendEmailGate /\ Corrupt(cooldown_file)) => gate'["manual"] = Allowed]_vars

\* C7: start_scheduler() called while the scheduler runs returns True and
\* leaves the scheduler, its job, the callback, the interval and the number
\* of timers (one) as they were; called while it is stopped and the timer
\* facility is there, it returns True and leaves exactly one timer.
C7_StartIdempotent ==
    [][/\ (StartScheduler /\ is_scheduler_running)
            => /\ last_call'.ret = "True"
               /\ UNCHANGED <<_scheduler, _send_email_callback, timers>>
               /\ timers' = 1
               /\ Cardinality(_scheduler'.jobs) = 1
       /\ (StartScheduler /\ ~is_scheduler_running /\ APSCHEDULER_AVAILABLE)
            => /\ last_call'.ret = "True"
               /\ is_scheduler_running'
               /\ timers' = 1
               /\ Cardinality(_scheduler'.jobs) = 1]_vars

C7_Witness ==
    /\ last_call.op = "start_scheduler"
    /\ last_call.message = "Scheduler is already running"
    /\ last_call.ret = "True"
    /\ is_scheduler_running
    /\ timers = 1

\* C8: after stop_scheduler() the scheduler is not running; called while it
\* is not running, it changes nothing of the program's state.
C8_StopThenNotRunning ==
    [][StopScheduler
         => /\ ~is_scheduler_running'
            /\ timers' = 0
            /\ ~is_scheduler_running
                 => UNCHANGED <<now, cooldown_file, driver_vars, pc, gate, cb_calls,
                                response, email_result, save_error, last_dispatch>>]_vars

C8_Witness ==
    /\ last_call.op = "stop_scheduler"
    /\ last_call.message = "Scheduler stopped"
    /\ ~is_scheduler_running
    /\ timers = 0

\* C9: while the timer facility is unavailable the scheduler is stopped, no
\* timer and no callback is registered, and a start_scheduler() call has
\* returned False.
C9_UnavailableStaysStopped ==
    ~APSCHEDULER_AVAILABLE
      => /\ ~is_scheduler_running
         /\ _scheduler = NoScheduler
         /\ timers = 0
         /\ _send_email_callback = None
         /\ last_call.op = "start_scheduler" => last_call.ret = "False"

C9_Witness ==
    /\ ~APSCHEDULER_AVAILABLE
    /\ last_call.op = "start_scheduler"
    /\ last_call.ret = "False"
    /\ ~is_scheduler_running

\* C10: in a timer cycle the gate is evaluated first; the callback is entered
\* only from that evaluation, once, and only when it reported allowed;
\* otherwise the cycle ends there with no query, dispatch or record write.
C10_GateBeforeCallback ==
    [][/\ ScheduledGate
            => IF gate'["timer"].exc = "" /\ gate'["timer"].can_send
               THEN /\ cb_calls' = 1
                    /\ pc'["timer"] \in {"query", "other"}
               ELSE /\ cb_calls' = 0
                    /\ pc'["timer"] = "idle"
                    /\ UNCHANGED <<cooldown_file, last_dispatch>>
       /\ (pc["timer"] \notin CallbackPcs /\ pc'["timer"] \in CallbackPcs)
            => /\ pc["timer"] = "sched_gate"
               /\ gate'["timer"] = Allowed
       /\ pc'["timer"] \in CallbackPcs => cb_calls' = 1
       /\ pc'["timer"] = "sched_gate" => cb_calls' = 0]_vars

C10_Witness ==
    /\ pc["timer"] = "query"
    /\ cb_calls = 1
    /\ gate["timer"] = Allowed

\* A step of the timer task in which a call raised or failed: the gate of
\* either function raising, the query raising, the dispatch failing, the
\* other callback ending, the save printing an IOError.
TimerCycleFailure ==
    \/ ScheduledGate /\ gate'["timer"].exc # ""
    \/ TaskGate /\ gate'["timer"].exc # ""
    \/ task_query(TRUE)
    \/ task_dispatch(FALSE)
    \/ OtherCallback
    \/ TaskRecord /\ save_error'

\* C11: a step of a timer cycle in which a call raises or fails ends the
\* cycle and leaves the scheduler as it was: running, with its one timer and
\* its callback, the task idle, so that the timer can fire again.
C11_FailureContained ==
    [][TimerCycleFailure
         => /\ pc'["timer"] = "idle"
            /\ UNCHANGED driver_vars
            /\ is_scheduler_running'
            /\ timers' = 1
            /\ _send_email_callback' # None]_vars

C11_Witness ==
    /\ pc["timer"] = "idle"
    /\ gate["timer"].exc = "AttributeError"
    /\ is_scheduler_running
    /\ timers = 1

C13_StoppedHasNoCallback ==
    (last_call.op = "stop_scheduler" /\ ~is_scheduler_running)
      => _send_email_callback = None

\* C13, amended: stop_scheduler() on a running scheduler shuts its timer
\* down and drops the handle, and leaves the registered callback registered.
C13_StopKeepsCallback ==
    [][(StopScheduler /\ is_scheduler_running)
         => /\ _scheduler' = NoScheduler
            /\ ~is_scheduler_running'
            /\ timers' = 0
            /\ _send_email_callback' = _send_email_callback
            /\ _send_email_callback' \in Callbacks]_vars

C13_Witness ==
    /\ last_call.message = "Scheduler stopped"
    /\ ~is_scheduler_running
    /\ timers = 0
    /\ _send_email_callback = "other_callback"

\* C14: a restart leaves the file as it was and the module globals as a fresh
\* import sets them; lifespan() then starts the scheduler only when it is
\* enabled (and the timer facility is there), with _send_email_task; the
\* scheduler gets running in no other way than a start_scheduler() call.
C14_RestartKeepsFileResetsScheduler ==
    [][/\ \A a \in BOOLEAN, iv \in Intervals :
            /\ lifespan(a, FALSE, iv)
                 => /\ UNCHANGED cooldown_file
                    /\ _scheduler' = NoScheduler
                    /\ _send_email_callback' = None
                    /\ timers' = 0
            /\ lifespan(a, TRUE, iv)
                 => /\ UNCHANGED cooldown_file
                    /\ is_scheduler_running' <=> a
                    /\ a => /\ _scheduler' = started_scheduler(iv)
                            /\ _send_email_callback' = "_send_email_task"
                            /\ timers' = 1
                    /\ ~a => /\ _send_email_callback' = None
                             /\ timers' = 0
       /\ (~is_scheduler_running /\ is_scheduler_running')
            => \/ StartScheduler
               \/ \E a \in BOOLEAN, iv \in Intervals : lifespan(a, TRUE, iv)]_vars

C14_Witness ==
    /\ last_call = NoCall
    /\ response = "none"
    /\ pc["manual"] = "idle"
    /\ ~is_scheduler_running
    /\ _send_email_callback = None
    /\ last_dispatch = cooldown_duration - 1
    /\ HasRecord(cooldown_file)
    /\ StoredInstant(cooldown_file) = last_dispatch

\* C15: the manual trigger evaluates the same check_cooldown() as the timer
\* task's callback and acts on it the same way: not allowed ends the handler
\* ("skipped" for the manual one) with no dispatch and no record write;
\* allowed leads to the dispatch, and a successful dispatch to the record.
C15_ManualSameGate ==
    [][/\ SendEmailGate
            => LET r == gate'["manual"] IN
               /\ r = check_cooldown(cooldown_file, now)
               /\ UNCHANGED <<cooldown_file, last_dispatch>>
               /\ pc'["manual"] = IF r.exc = "" /\ r.can_send THEN "dispatch" ELSE "idle"
               /\ (r.exc = "" /\ ~r.can_send) => response' = "skipped"
       /\ TaskGate
            => LET r == gate'["timer"] IN
               /\ r = check_cooldown(cooldown_file, now)
               /\ UNCHANGED <<cooldown_file, last_dispatch>>
               /\ pc'["timer"] = IF r.exc = "" /\ r.can_send THEN "dispatch" ELSE "idle"
       /\ response' = "skipped" => (gate'["manual"].exc = "" /\ ~gate'["manual"].can_send)
       /\ send_email_dispatch(TRUE) => pc'["manual"] = "record"
       /\ task_dispatch(TRUE) => pc'["timer"] = "record"
       /\ send_email_dispatch(FALSE) => pc'["manual"] = "idle"
       /\ task_dispatch(FALSE) => pc'["timer"] = "idle"]_vars

C15_Witness ==
    /\ pc["manual"] = "record"
    /\ gate["manual"] = Allowed
    /\ email_result["manual"] = "success"
    /\ pc["timer"] = "record"
    /\ gate["timer"] = Allowed
    /\ email_result["timer"] = "success"

WellFormed(pickup) ==
    \/ pickup.type = "datetime"
    \/ pickup.type = "str" /\ pickup.str.form = "iso"

\* The instant a well-formed pickup denotes; one without an offset is read
\* as UTC.
PickupInstant(pickup) ==
    IF pickup.type = "str"
    THEN pickup.str.date * 86400 + pickup.str.hour * 3600
         + pickup.str.minute * 60 + pickup.str.second
    ELSE pickup.dt.secs

\* Calendar day and hour of day of an instant on the US Central wall clock.
CivilDate(instant) == (instant + utcoffset(instant)) \div 86400
CivilHour(instant) == ((instant + utcoffset(instant)) % 86400) \div 3600

PickupIsTomorrow ==
    CivilDate(PickupInstant(pickup_date_close)) = CivilDate(now) + 1

TomorrowRule ==
    /\ PickupIsTomorrow
    /\ CivilHour(now) >= 12
    /\ CivilHour(PickupInstant(pickup_date_close)) < 9

\* C16: a well-formed pickup whose Central date is the date of the call or an
\* earlier one is classified False, whatever the hours.
C16_PastOrTodayNotPrebook ==
    (/\ prebook.called
     /\ WellFormed(pickup_date_close)
     /\ CivilDate(PickupInstant(pickup_date_close)) <= CivilDate(now))
      => (prebook.exc = "" /\ prebook.value = FALSE)

C16_Witness ==
    /\ prebook.called
    /\ pickup_date_close.type = "str"
    /\ pickup_date_close.str.offset = "Z"
    /\ CivilDate(PickupInstant(pickup_date_close)) = CivilDate(now)
    /\ CivilHour(PickupInstant(pickup_date_close)) = 23
    /\ CivilHour(now) = 0
    /\ prebook.value = FALSE

\* C17: a well-formed pickup whose Central date is the day after the call's
\* is classified False exactly when the call's Central hour is >= 12 and the
\* pickup's Central hour is < 9.
C17_TomorrowRule ==
    (/\ prebook.called
     /\ WellFormed(pickup_date_close)
     /\ PickupIsTomorrow)
      => /\ prebook.exc = ""
         /\ prebook.value = FALSE
              <=> (/\ CivilHour(now) >= 12
                   /\ CivilHour(PickupInstant(pickup_date_close)) < 9)

C17_Witness ==
    /\ prebook.called
    /\ WellFormed(pickup_date_close)
    /\ PickupIsTomorrow
    /\ CivilHour(now) = 14
    /\ CivilHour(PickupInstant(pickup_date_close)) = 7
    /\ now < DstStart
    /\ PickupInstant(pickup_date_close) >= DstStart
    /\ prebook.value = FALSE

\* C18: a well-formed pickup whose Central date is after the call's and that
\* the tomorrow rule does not catch is classified True.
C18_FutureIsPrebook ==
    (/\ prebook.called
     /\ WellFormed(pickup_date_close)
     /\ CivilDate(PickupInstant(pickup_date_close)) > CivilDate(now)
     /\ ~TomorrowRule)
      => (prebook.exc = "" /\ prebook.value = TRUE)

C18_Witness ==
    /\ prebook.called
    /\ pickup_date_close.type = "datetime"
    /\ CivilDate(PickupInstant(pickup_date_close)) = CivilDate(now) + 2
    /\ CivilHour(now) = 23
    /\ CivilHour(PickupInstant(pickup_date_close)) = 0
    /\ prebook.value = TRUE

\* C19: is_prebook_load() raises nothing, and returns False for None and
\* for every pickup that is not well-formed.
C19_NeverRaises ==
    prebook.called
      => /\ prebook.exc = ""
         /\ ~WellFormed(pickup_date_close) => prebook.value = FALSE

C19_Witness ==
    /\ prebook.called
    /\ pickup_date_close = PyStr(GarbageStr)
    /\ prebook.exc = ""
    /\ prebook.value = FALSE

\* A handler passes its gate.
ManualPassesGate == SendEmailGate /\ gate'["manual"] = Allowed
TimerPassesGate  == TaskGate /\ gate'["timer"] = Allowed

\* A handler has passed its gate and has not yet finished its record write.
BetweenGateAndRecord(p) ==
    pc[p] \in {"dispatch", "record"} /\ gate[p] = Allowed

C22_NeverRegresses ==
    [][/\ (RecordStep /\ HasRecord(cooldown_file) /\ HasRecord(cooldown_file'))
            => StoredInstant(cooldown_file') >= StoredInstant(cooldown_file)
       /\ (HasRecord(cooldown_file') /\ overwritten' # NoInstant)
            => StoredInstant(cooldown_file') >= overwritten']_vars

C22_Witness ==
    /\ overwritten = 0
    /\ ~save_error
    /\ WrittenRecord(cooldown_file)
    /\ StoredInstant(cooldown_file) = cooldown_duration - 1
    /\ now = cooldown_duration

\* How far a trigger has come: the order of the calls in _scheduled_email_task,
\* _send_email_task and send_email.
TriggerRank(position) ==
    CASE position = "idle"       -> 0
      [] position = "sched_gate" -> 1
      [] position = "query"      -> 2
      [] position = "other"      -> 2
      [] position = "gate"       -> 3
      [] position = "dispatch"   -> 4
      [] position = "record"     -> 5

\* C23: within a trigger a handler only moves forward through its calls until
\* it ends, so it is at its dispatch once and at its record write once; a
\* dispatch step leaves the dispatch position whatever its result; a dispatch
\* without success ends the trigger with no record write, answered "error"
\* to the caller of the manual trigger; the file changes only in the record
\* write of a handler.
C23_OneDispatchOneRecord ==
    [][/\ \A p \in Procs :
            pc'[p] # pc[p]
              => (pc'[p] = "idle" \/ TriggerRank(pc'[p]) > TriggerRank(pc[p]))
       /\ \A success \in BOOLEAN :
            /\ send_email_dispatch(success)
                 => pc'["manual"] = IF success THEN "record" ELSE "idle"
            /\ task_dispatch(success)
                 => pc'["timer"] = IF success THEN "record" ELSE "idle"
       /\ send_email_dispatch(FALSE)
            => (response' = "error" /\ UNCHANGED <<cooldown_file, last_dispatch>>)
       /\ task_dispatch(FALSE) => UNCHANGED <<cooldown_file, last_dispatch>>
       /\ cooldown_file' # cooldown_file
            => \E p \in Procs : pc[p] = "record" /\ pc'[p] = "idle"]_vars

C23_Witness ==
    /\ response = "error"
    /\ pc["manual"] = "idle"
    /\ gate["manual"] = Allowed
    /\ email_result["manual"] = "none"
    /\ cooldown_file = FileMissing
    /\ last_dispatch = NoInstant
    /\ now = cooldown_duration - 1

\* C24: a record write whose open() or write raises an IOError ends the
\* handler as a write that succeeded does (the manual trigger answers
\* "success", the scheduler is untouched), and leaves a file in which a gate
\* reads the record it held before or no record, not the new instant.
C24_WriteErrorSwallowed ==
    [][\A io \in IoOutcomes \ {"ok"} :
         /\ send_email_record(io)
              => /\ response' = "success"
                 /\ pc'["manual"] = "idle"
         /\ task_record(io)
              => /\ pc'["timer"] = "idle"
                 /\ UNCHANGED driver_vars
         /\ (send_email_record(io) \/ task_record(io))
              => /\ save_error'
                 /\ HasRecord(cooldown_file') => cooldown_file' = cooldown_file]_vars

C24_Witness ==
    /\ response = "success"
    /\ pc["manual"] = "idle"
    /\ save_error
    /\ cooldown_file = FileMissing
    /\ last_dispatch = now
    /\ now = cooldown_duration - 1

\* The callback a timer cycle has invoked.
InvokedCallback ==
    CASE pc["timer"] \in {"query", "gate", "dispatch", "record"} -> "_send_email_task"
      [] pc["timer"] = "other" -> "other_callback"
      [] OTHER -> None

\* C25: while the scheduler runs, the registered callback, and the callback
\* a timer cycle invokes, is the one passed to the start_scheduler() call
\* that last took the scheduler from stopped to running; a start_scheduler()
\* call on a running scheduler changes neither the callback nor the
\* scheduler, whatever callback it is passed.
C25_CallbackOfLastStart ==
    [][/\ is_scheduler_running' => _send_email_callback' = armed_by'
       /\ InvokedCallback' # None => InvokedCallback' = armed_by'
       /\ (StartScheduler /\ is_scheduler_running)
            => UNCHANGED <<_send_email_callback, _scheduler, timers>>
       /\ (StartScheduler /\ ~is_scheduler_running /\ is_scheduler_running')
            => (_send_email_callback' = start_arg' /\ armed_by' = start_arg')]_vars

\* The scheduler was stopped and started again with another callback, a later
\* start_scheduler() call on the running scheduler passed the first one, and
\* the cycle under way has invoked the callback of the restart.
C25_Witness ==
    /\ is_scheduler_running
    /\ last_call.message = "Scheduler is already running"
    /\ start_arg = "_send_email_task"
    /\ armed_by = "other_callback"
    /\ InvokedCallback = "other_callback"

====
